---------------------------- MODULE Spec2Model ----------------------------
(***************************************************************************)
(* A model of the template placeholder engine and the generated-artifact   *)
(* lifecycle of snehallabade/templates (src/app.ts, src/routes/download.ts)*)
(*                                                                         *)
(* The program is one Node.js process: every handler runs to its next      *)
(* await without interleaving with other JavaScript, while the converter   *)
(* processes it spawns (and any other process of the host) run in          *)
(* parallel.  A path is a sequence of segments; a string is a sequence of  *)
(* symbols (one-character strings, or a brace-free word written as one     *)
(* symbol).                                                                *)
(***************************************************************************)
EXTENDS Integers, Sequences, FiniteSets, TLC

VARIABLES
    fs,        \* the regular files of the host: path -> [mtime, size, by],
               \* by: the request whose document the bytes come from
    dirs,      \* the directories of the host (a set of paths)
    now,       \* the clock, in ticks
    dl,        \* the download handler's request and response
    sw,        \* the cleanup sweep in progress
    env,       \* the host: files that cannot be unlinked, other processes
    gen,       \* the generation requests in flight
    img,       \* the form data of a word-processing request, as received
               \* and as handed to the templating library
    xl         \* a spreadsheet rendering: the two workbooks, the form data

None == "none"

(***************************************************************************)
(* Bounds of the model.                                                    *)
(***************************************************************************)
MaxSegs == 5       \* longest download filename, in path segments

MaxTime == 3       \* the clock stops here

HourTicks == 2     \* ticks of the clock in one hour

MaxExtRemovals == 1  \* files other processes remove

MaxReqs == 2       \* generation requests in flight

MaxCells == 3      \* cells of a spreadsheet template

(***************************************************************************)
(* Sequences.                                                              *)
(***************************************************************************)
Last(s) == s[Len(s)]

Front(s) == SubSeq(s, 1, Len(s) - 1)

SeqsUpTo(S, n) == UNION {[1..k -> S] : k \in 0..n}

IsPrefix(p, q) == Len(p) <= Len(q) /\ SubSeq(q, 1, Len(p)) = p

(***************************************************************************)
(* The file system.                                                        *)
(***************************************************************************)
AppDir == <<"app">>

DIRS ==
    [generatedDocx  |-> AppDir \o <<"output-generated", "docx">>,
     generatedPdf   |-> AppDir \o <<"output-generated", "pdf">>,
     generatedExcel |-> AppDir \o <<"output-generated", "excel">>]

\* fs.existsSync: a path with a trailing slash names a directory only.
existsSync(p, trailing) == p \in dirs \/ (~trailing /\ p \in DOMAIN fs)

\* fs.statSync(p).size; a directory reports its block size.
DirSize == 4096

statSize(p) == IF p \in DOMAIN fs THEN fs[p].size ELSE DirSize

\* The directories the process makes sure of when it starts, and their
\* parents.
StartDirs ==
    {<<>>, AppDir, AppDir \o <<"output-generated">>, <<"etc">>}
        \cup {DIRS[k] : k \in DOMAIN DIRS}

File(mtime, size, by) == [mtime |-> mtime, size |-> size, by |-> by]

(***************************************************************************)
(* path.basename and path.join of Node's posix path module, on a string    *)
(* given as its segments between slashes (the string "a//b/" is            *)
(* <<"a", "", "b", "">>).                                                  *)
(***************************************************************************)
RECURSIVE StripTrailingEmpty(_)
StripTrailingEmpty(segs) ==
    IF segs # <<>> /\ Last(segs) = ""
    THEN StripTrailingEmpty(Front(segs))
    ELSE segs

basename(segs) ==
    LET s == StripTrailingEmpty(segs)
    IN  IF s = <<>> THEN "" ELSE Last(s)

RECURSIVE normalize(_, _)
normalize(acc, segs) ==
    IF segs = <<>> THEN acc
    ELSE LET h == Head(segs)
         IN  IF h = "" \/ h = "." THEN normalize(acc, Tail(segs))
             ELSE IF h = ".."
                  THEN normalize(IF acc = <<>> THEN acc ELSE Front(acc),
                                 Tail(segs))
                  ELSE normalize(Append(acc, h), Tail(segs))

\* path.join(dir, name): the normalized path, and whether the joined string
\* ends with a slash.
join(dir, segs) ==
    [path |-> normalize(dir, segs),
     trailing |-> segs # <<>> /\ Last(segs) = ""]

(***************************************************************************)
(* The download handler, src/routes/download.ts.                           *)
(***************************************************************************)
MIME_TYPES ==
    [pdf |-> "application/pdf",
     docx |-> "application/vnd.openxmlformats-officedocument.wordprocessingml.document",
     excel |-> "application/vnd.openxmlformats-officedocument.spreadsheetml.sheet"]

OUTPUT_DIRS == [pdf |-> "generatedPdf", excel |-> "generatedExcel",
                docx |-> "generatedDocx"]

\* The switch on the type: the directory of a valid type.
targetDirOf(type) == DIRS[OUTPUT_DIRS[type]]

DlIdle ==
    [pc |-> "idle", type |-> None, filename |-> <<>>, status |-> 0,
     body |-> None, cleanFilename |-> None, filePath |-> <<>>,
     tested |-> FALSE, stream |-> FALSE, headersSent |-> FALSE,
     contentType |-> None, contentLength |-> 0, sent |-> 0,
     opened |-> FALSE, fd |-> File(0, 0, 0)]

\* The path the handler looks up: line 79 joins the directory with the
\* request's filename as it came.
lookupPath(targetDir, filename) == join(targetDir, filename)

\* res.status(code).send(text)
DlRespond(d, code, text) ==
    [d EXCEPT !.pc = "done", !.status = code, !.body = text,
              !.headersSent = TRUE]

\* The synchronous part of downloadHandler, lines 38-100.
downloadHandler(type, filename) ==
    LET d0 == [DlIdle EXCEPT !.type = type, !.filename = filename]
    IN
    IF type = "" \/ filename = <<"">>
    THEN DlRespond(d0, 400, "Missing parameters")
    ELSE
    LET d1 == [d0 EXCEPT !.cleanFilename = basename(filename)]
    IN
    IF type \notin DOMAIN OUTPUT_DIRS
    THEN DlRespond(d1, 400, "Invalid file type")
    ELSE
    LET targetDir == targetDirOf(type)
        fp == lookupPath(targetDir, filename)
        d2 == [d1 EXCEPT !.filePath = fp.path]
    IN
    IF ~existsSync(targetDir, FALSE)
    THEN DlRespond(d2, 500, "Server configuration error")
    ELSE IF ~existsSync(fp.path, fp.trailing)
    THEN DlRespond([d2 EXCEPT !.tested = TRUE], 404, "File not found")
    ELSE [d2 EXCEPT !.pc = "streaming", !.tested = TRUE, !.stream = TRUE,
                    !.contentType = MIME_TYPES[type],
                    !.contentLength = statSize(fp.path)]

FilenameSegs == {"..", "etc", "passwd", "g1.pdf", ""}

Filenames == SeqsUpTo(FilenameSegs, MaxSegs) \ {<<>>}

Types == {"pdf", "excel", "docx", "txt", ""}

DownloadRequest ==
    /\ dl.pc = "idle"
    /\ \E type \in Types, filename \in Filenames :
           dl' = downloadHandler(type, filename)
    /\ UNCHANGED <<fs, dirs, now, sw, env, gen, img, xl>>

\* fs.createReadStream opens the file after the handler has returned; the
\* descriptor keeps the file's bytes readable when the path is unlinked.
DownloadStreamOpen ==
    /\ dl.pc = "streaming"
    /\ ~dl.opened
    /\ dl.filePath \in DOMAIN fs
    /\ dl' = [dl EXCEPT !.opened = TRUE, !.fd = fs[dl.filePath]]
    /\ UNCHANGED <<fs, dirs, now, sw, env, gen, img, xl>>

\* The read stream delivers the file: the first chunk sends the headers.
DownloadStreamData ==
    /\ dl.pc = "streaming"
    /\ dl.opened
    /\ dl.sent < dl.fd.size
    /\ dl' = [dl EXCEPT !.sent = @ + 1, !.headersSent = TRUE, !.status = 200]
    /\ UNCHANGED <<fs, dirs, now, sw, env, gen, img, xl>>

\* fileStream.on('end')
DownloadStreamEnd ==
    /\ dl.pc = "streaming"
    /\ dl.opened
    /\ dl.sent = dl.fd.size
    /\ dl' = [dl EXCEPT !.pc = "done", !.headersSent = TRUE, !.status = 200]
    /\ UNCHANGED <<fs, dirs, now, sw, env, gen, img, xl>>

\* fileStream.on('error'), lines 102-107, with the response of line 105
\* sent whatever res.headersSent says.
DownloadStreamErrorAlwaysResponds ==
    /\ dl.pc = "streaming"
    /\ dl.filePath \notin DOMAIN fs
    /\ dl' = DlRespond(dl, 500, "Error downloading file")
    /\ UNCHANGED <<fs, dirs, now, sw, env, gen, img, xl>>

\* fileStream.on('error'), lines 102-107: the path is a directory, or the
\* file is gone before the stream opened it; when it is unlinked under the
\* open descriptor the stream goes on, or fails where the file system
\* cannot serve an unlinked file.
DownloadStreamError ==
    /\ dl.pc = "streaming"
    /\ dl.filePath \notin DOMAIN fs
    /\ dl' = IF dl.headersSent
             THEN [dl EXCEPT !.pc = "done", !.body = "aborted"]
             ELSE DlRespond(dl, 500, "Error downloading file")
    /\ UNCHANGED <<fs, dirs, now, sw, env, gen, img, xl>>

\* The next request.
DownloadNext ==
    /\ dl.pc = "done"
    /\ dl' = DlIdle
    /\ UNCHANGED <<fs, dirs, now, sw, env, gen, img, xl>>

(***************************************************************************)
(* The host around the process.                                            *)
(***************************************************************************)
EnvQuiet == [undeletable |-> {}, removals |-> 0]

\* The clock advances.
Tick ==
    /\ now < MaxTime
    /\ now' = now + 1
    /\ UNCHANGED <<fs, dirs, dl, sw, env, gen, img, xl>>

\* Another process of the host (a converter run started by a generation
\* request, an operator) removes a file; it runs in parallel with the
\* process, also while a synchronous sweep is between two system calls.
ExtRemove ==
    /\ env.removals < MaxExtRemovals
    /\ \E p \in DOMAIN fs :
           /\ \E k \in DOMAIN DIRS : IsPrefix(DIRS[k], p)
           /\ fs' = [q \in DOMAIN fs \ {p} |-> fs[q]]
    /\ env' = [env EXCEPT !.removals = @ + 1]
    /\ UNCHANGED <<dirs, now, dl, sw, gen, img, xl>>

(***************************************************************************)
(* cleanupGeneratedFiles, src/app.ts lines 425-448.                        *)
(***************************************************************************)
\* maxAgeHours: a number of hours, or Infinity.
Hours(n) == [inf |-> FALSE, n |-> n]

Infinity == [inf |-> TRUE, n |-> 0]

DefaultMaxAgeHours == 1

MaxAgeHoursChoices == {Hours(0), Hours(DefaultMaxAgeHours), Infinity}

\* maxAgeHours * 60 * 60 * 1000
maxAgeOf(maxAgeHours) ==
    IF maxAgeHours.inf THEN Infinity ELSE Hours(maxAgeHours.n * HourTicks)

\* now - stats.mtimeMs > maxAge
tooOld(t, mtime, maxAge) == ~maxAge.inf /\ t - mtime > maxAge.n

SweepDirKeys == <<"generatedDocx", "generatedPdf", "generatedExcel">>

SwIdle ==
    [pc |-> "idle", now |-> 0, maxAgeHours |-> Hours(DefaultMaxAgeHours),
     maxAge |-> Hours(0), dirKeys |-> <<>>,
     listing |-> {}, start |-> <<>>, errors |-> {}, thrown |-> <<>>,
     unlinked |-> {}]

\* The files of a directory: fs.readdirSync(dir).
readdirSync(dir) == {p \in DOMAIN fs : Len(p) = Len(dir) + 1 /\ IsPrefix(dir, p)}

TypedFiles == UNION {readdirSync(DIRS[k]) : k \in DOMAIN DIRS}

\* Lines 426-427: the sweep reads the clock once.
SweepStart ==
    /\ sw.pc = "idle"
    /\ \E h \in MaxAgeHoursChoices :
           sw' = [SwIdle EXCEPT !.pc = "dir", !.now = now,
                                !.maxAgeHours = h, !.maxAge = maxAgeOf(h),
                                !.dirKeys = SweepDirKeys,
                                !.start = [p \in TypedFiles |-> fs[p]]]
    /\ UNCHANGED <<fs, dirs, now, dl, env, gen, img, xl>>

\* Lines 430-433: the next directory is listed, if it exists.
SweepReadDir ==
    /\ sw.pc = "dir"
    /\ IF sw.dirKeys = <<>>
       THEN sw' = [sw EXCEPT !.pc = "done"]
       ELSE LET dir == DIRS[Head(sw.dirKeys)]
            IN  IF dir \in dirs /\ readdirSync(dir) # {}
                THEN sw' = [sw EXCEPT !.pc = "files",
                                      !.listing = readdirSync(dir)]
                ELSE sw' = [sw EXCEPT !.dirKeys = Tail(@)]
    /\ UNCHANGED <<fs, dirs, now, dl, env, gen, img, xl>>

\* The sweep after the file `p` of the listing has been handled.
SweepAdvance(s, p) ==
    IF s.listing = {p}
    THEN [s EXCEPT !.pc = "dir", !.listing = {}, !.dirKeys = Tail(@)]
    ELSE [s EXCEPT !.listing = @ \ {p}]

\* Lines 434-444, one file of the listing: statSync is outside the try, so
\* its ENOENT leaves forEach and cleanupGeneratedFiles; a failing
\* unlinkSync is caught and logged.
SweepFile ==
    /\ sw.pc = "files"
    /\ \E p \in sw.listing :
           IF p \notin DOMAIN fs
           THEN /\ sw' = [sw EXCEPT !.pc = "thrown", !.thrown = p]
                /\ fs' = fs
           ELSE IF tooOld(sw.now, fs[p].mtime, sw.maxAge)
           THEN IF p \in env.undeletable
                THEN /\ sw' = SweepAdvance([sw EXCEPT !.errors = @ \cup {p}], p)
                     /\ fs' = fs
                ELSE /\ sw' = SweepAdvance([sw EXCEPT !.unlinked = @ \cup {p}], p)
                     /\ fs' = [q \in DOMAIN fs \ {p} |-> fs[q]]
           ELSE /\ sw' = SweepAdvance(sw, p)
                /\ fs' = fs
    /\ UNCHANGED <<dirs, now, dl, env, gen, img, xl>>

\* Line 452: setInterval runs the next sweep.
SweepNext ==
    /\ sw.pc = "done"
    /\ sw' = SwIdle
    /\ UNCHANGED <<fs, dirs, now, dl, env, gen, img, xl>>

(***************************************************************************)
(* JavaScript values.                                                      *)
(***************************************************************************)
Undefined == [t |-> "undefined"]

Null == [t |-> "null"]

Num(n) == [t |-> "number", n |-> n]

Str(s) == [t |-> "string", s |-> s]

Obj(props) == [t |-> "object", props |-> props]

\* value.name
Get(v, name) ==
    IF v.t = "object" /\ name \in DOMAIN v.props THEN v.props[name]
    ELSE Undefined

\* ToBoolean
Truthy(v) ==
    CASE v.t = "undefined" -> FALSE
      [] v.t = "null" -> FALSE
      [] v.t = "number" -> v.n # 0
      [] v.t = "string" -> v.s # <<>>
      [] OTHER -> TRUE

\* a || b
OrElse(a, b) == IF Truthy(a) THEN a ELSE b

(***************************************************************************)
(* The image fields of a word-processing request, src/app.ts lines         *)
(* 286-309.                                                                *)
(***************************************************************************)
ImgIdle == [pc |-> "idle", body |-> <<>>, formData |-> <<>>]

\* Buffer.from(source, 'base64')
Buffer(source) == [t |-> "buffer", of |-> source.s]

MimeTypePng == Str(<<"image/png">>)

\* Lines 292-300: the object that replaces the entry.
normalizedImage(key, value) ==
    Obj([_type |-> Str(<<"image">>),
         source |-> Buffer(Get(value, "source")),
         format |-> MimeTypePng,
         width |-> Num(150),
         height |-> Num(100),
         altText |-> OrElse(Get(value, "altText"), Str(key)),
         transparencyPercent |-> OrElse(Get(value, "transparencyPercent"), Num(0))])

\* value && value._type === 'image'
isImage(value) == Truthy(value) /\ Get(value, "_type") = Str(<<"image">>)

\* Buffer.from(undefined, 'base64') throws a TypeError.
bufferThrows(value) == Get(value, "source").t # "string"

ImgKeys == <<<<"logo">>, <<"name">>>>

\* Object.entries(formData).forEach(...): the entries up to the first one
\* whose Buffer.from throws are rewritten.
RECURSIVE normalizeEntries(_, _)
normalizeEntries(fd, keys) ==
    IF keys = <<>> THEN [formData |-> fd, threw |-> FALSE]
    ELSE LET key == Head(keys)
         IN  IF key \notin DOMAIN fd \/ ~isImage(fd[key])
             THEN normalizeEntries(fd, Tail(keys))
             ELSE IF bufferThrows(fd[key])
             THEN [formData |-> fd, threw |-> TRUE]
             ELSE normalizeEntries(
                      [fd EXCEPT ![key] = normalizedImage(key, fd[key])],
                      Tail(keys))

ImgNormalize ==
    /\ img.pc = "received"
    /\ LET res == normalizeEntries(img.formData, ImgKeys)
       IN  img' = [img EXCEPT !.pc = IF res.threw THEN "failed" ELSE "normalized",
                              !.formData = res.formData]
    /\ UNCHANGED <<fs, dirs, now, dl, sw, env, gen, xl>>

OptionalProps(name, values) == {<<>>} \cup {(name :> v) : v \in values}

ImageBodies ==
    {Obj((("_type" :> Str(<<"image">>)) @@ src) @@ w @@ h @@ a @@ tp) :
        src \in OptionalProps("source", {Str(<<"aGk=">>)}),
        w \in OptionalProps("width", {Num(300)}),
        h \in OptionalProps("height", {Num(200)}),
        a \in OptionalProps("altText", {Str(<<>>), Str(<<"Logo">>)}),
        tp \in OptionalProps("transparencyPercent", {Num(0), Num(50)})}

PlainBodies ==
    {Str(<<"Acme">>), Str(<<>>), Num(7), Null,
     Obj(("_type" :> Str(<<"text">>)) @@ ("width" :> Num(300)))}

FormValues == ImageBodies \cup PlainBodies

(***************************************************************************)
(* Generation and conversion, src/app.ts lines 260-422.                    *)
(***************************************************************************)
Reqs == 1..MaxReqs

NoCode == -1

NoConv == [outcome |-> None, code |-> NoCode, existed |-> FALSE, size |-> 0]

GenIdleReq ==
    [pc |-> "idle", ext |-> None, timestamp |-> 0, code |-> NoCode,
     status |-> 0, docFilename |-> None, pdfFilename |-> None,
     conv |-> NoConv,
     docExisted |-> FALSE, pdfExisted |-> FALSE, pdfBy |-> 0]

GenIdle == [r \in Reqs |-> GenIdleReq]

\* `generated-${timestamp}.${ext}`
generatedName(timestamp, ext) ==
    "generated-" \o ToString(timestamp) \o "." \o ext

\* The directory of the intermediate document of a template extension.
docDirOf(ext) ==
    IF ext = "xlsx" THEN DIRS.generatedExcel ELSE DIRS.generatedDocx

outputDoc(g) == docDirOf(g.ext) \o <<generatedName(g.timestamp, g.ext)>>

outputPdf(g) == DIRS.generatedPdf \o <<generatedName(g.timestamp, "pdf")>>

\* path.join(absoluteOutputDir, path.basename(absoluteInputPath, ext) + '.pdf')
\* for the input generated-<timestamp>.<ext>; the converter names its output
\* the same way.
expectedPdfPath(g) ==
    DIRS.generatedPdf \o <<"generated-" \o ToString(g.timestamp) \o ".pdf">>

\* The handler's catch, lines 344-347: res.status(500).send(error.message)
GenFail(g) == [g EXCEPT !.pc = "responded", !.status = 500]

\* res.json({... docxFilename / excelFilename, pdfFilename ...}), with what
\* is on disk as the response is sent.
GenSucceed(g) ==
    [g EXCEPT !.pc = "responded", !.status = 200,
              !.docFilename = generatedName(g.timestamp, g.ext),
              !.pdfFilename = generatedName(g.timestamp, "pdf"),
              !.docExisted = outputDoc(g) \in DOMAIN fs,
              !.pdfExisted = outputPdf(g) \in DOMAIN fs,
              !.pdfBy = IF outputPdf(g) \in DOMAIN fs
                        THEN fs[outputPdf(g)].by ELSE 0]

TemplateExts == {"xlsx", "docx", "txt"}

\* Lines 262-266 and the dispatch on the extension: the request reads the
\* clock and starts rendering.
GenReceive(r) ==
    /\ gen[r].pc = "idle"
    /\ \E ext \in TemplateExts :
           LET g == [gen[r] EXCEPT !.ext = ext, !.timestamp = now]
           IN  gen' = [gen EXCEPT ![r] =
                          IF ext \in {"xlsx", "docx"}
                          THEN [g EXCEPT !.pc = "rendering"]
                          ELSE GenFail(g)]
    /\ UNCHANGED <<fs, dirs, now, dl, sw, env, img, xl>>

\* Reading or rendering the template fails (no such template, a file the
\* library cannot parse).
GenRenderFail(r) ==
    /\ gen[r].pc = "rendering"
    /\ gen' = [gen EXCEPT ![r] = GenFail(@)]
    /\ UNCHANGED <<fs, dirs, now, dl, sw, env, img, xl>>

\* workbook.xlsx.writeFile(outputExcel) / fs.promises.writeFile(outputDocx):
\* the intermediate document is on disk.
GenWrite(r) ==
    /\ gen[r].pc = "rendering"
    /\ fs' = (outputDoc(gen[r]) :> File(now, 1, r)) @@ fs
    /\ gen' = [gen EXCEPT ![r].pc = "written"]
    /\ UNCHANGED <<dirs, now, dl, sw, env, img, xl>>

\* convertToPdf / convertExcelToPdf up to the await of the converter: the
\* input must exist, the output directory is made.
ConvBegin(r) ==
    /\ gen[r].pc = "written"
    /\ IF outputDoc(gen[r]) \in DOMAIN fs
       THEN /\ gen' = [gen EXCEPT ![r].pc = "converting"]
            /\ dirs' = dirs \cup {DIRS.generatedPdf}
       ELSE /\ gen' = [gen EXCEPT ![r] =
                          GenFail([@ EXCEPT !.conv.outcome = "error"])]
            /\ dirs' = dirs
    /\ UNCHANGED <<fs, now, dl, sw, env, img, xl>>

ExitCodes == {0, 1}

ConverterEffects == {"none", "empty", "full"}

\* The converter process (soffice --convert-to pdf --outdir ...) runs and
\* ends: it may leave no output, an empty output or the converted document,
\* and ends with any exit code.
ConverterRun(r) ==
    /\ gen[r].pc = "converting"
    /\ \E code \in ExitCodes, effect \in ConverterEffects :
           /\ effect # "none" => outputDoc(gen[r]) \in DOMAIN fs
           /\ fs' = IF effect = "none" THEN fs
                    ELSE (expectedPdfPath(gen[r]) :>
                              File(now, IF effect = "empty" THEN 0 ELSE 1,
                                   fs[outputDoc(gen[r])].by)) @@ fs
           /\ gen' = [gen EXCEPT ![r].pc = "exited", ![r].code = code]
    /\ UNCHANGED <<dirs, now, dl, sw, env, img, xl>>

\* An exec whose promise resolves whatever the exit code.
execNeverRejects(code) == FALSE

\* promisify(exec): the promise rejects when the process ends with a
\* non-zero exit code.
execRejects(code) == code # 0

\* if (!fs.existsSync(expectedPdfPath)) throw ...: the rest of the
\* conversion and of the handler, in one task.
ConvCheck(g) ==
    LET e == expectedPdfPath(g) \in DOMAIN fs
        c == [outcome |-> IF e THEN "ok" ELSE "error", code |-> g.code,
              existed |-> e,
              size |-> IF e THEN fs[expectedPdfPath(g)].size ELSE 0]
        g1 == [g EXCEPT !.conv = c]
    IN  IF e THEN GenSucceed(g1) ELSE GenFail(g1)

\* The await of execAsync resumes: a rejection goes to the catch; the
\* word-processing path checks the output at once, the spreadsheet path
\* first waits a second.
ConvExecDone(r) ==
    /\ gen[r].pc = "exited"
    /\ LET g == gen[r]
           e == expectedPdfPath(g) \in DOMAIN fs
       IN  gen' = [gen EXCEPT ![r] =
               IF execRejects(g.code)
               THEN GenFail([g EXCEPT !.conv =
                        [outcome |-> "error", code |-> g.code, existed |-> e,
                         size |-> IF e THEN fs[expectedPdfPath(g)].size
                                  ELSE 0]])
               ELSE IF g.ext = "xlsx"
               THEN [g EXCEPT !.pc = "waiting"]
               ELSE ConvCheck(g)]
    /\ UNCHANGED <<fs, dirs, now, dl, sw, env, img, xl>>

\* Lines 411-417: after setTimeout(resolve, 1000).
ConvAfterWait(r) ==
    /\ gen[r].pc = "waiting"
    /\ gen' = [gen EXCEPT ![r] = ConvCheck(@)]
    /\ UNCHANGED <<fs, dirs, now, dl, sw, env, img, xl>>


(***************************************************************************)
(* Strings of the spreadsheet renderer: sequences of symbols.              *)
(***************************************************************************)
Digits == {"0", "1", "2", "3", "4", "5", "6", "7", "8", "9"}

DigitValue(c) ==
    CASE c = "0" -> 0 [] c = "1" -> 1 [] c = "2" -> 2 [] c = "3" -> 3
      [] c = "4" -> 4 [] c = "5" -> 5 [] c = "6" -> 6 [] c = "7" -> 7
      [] c = "8" -> 8 [] c = "9" -> 9

DigitSymbol(d) == <<"0", "1", "2", "3", "4", "5", "6", "7", "8", "9">>[d + 1]

AllDigits(s) == \A i \in 1..Len(s) : s[i] \in Digits

\* String.prototype.trim
RECURSIVE trim(_)
trim(s) ==
    IF s # <<>> /\ Head(s) = " " THEN trim(Tail(s))
    ELSE IF s # <<>> /\ Last(s) = " " THEN trim(Front(s))
    ELSE s

\* value.match(/^\d{4}-\d{2}-\d{2}/)
matchesIsoDatePrefix(s) ==
    /\ Len(s) >= 10
    /\ \A i \in {1, 2, 3, 4, 6, 7, 9, 10} : s[i] \in Digits
    /\ s[5] = "-"
    /\ s[8] = "-"

\* The unsigned decimal digits of a string, as a number.
RECURSIVE digitsToNat(_)
digitsToNat(s) ==
    IF s = <<>> THEN 0 ELSE digitsToNat(Front(s)) * 10 + DigitValue(Last(s))

\* Number(value) of a string of digits, signs, blanks and words: the
\* trimmed string is empty (0), or an optionally signed run of digits;
\* anything else is NaN.
isNaNNumber(s) ==
    LET t == trim(s)
        u == IF t # <<>> /\ Head(t) \in {"-", "+"} THEN Tail(t) ELSE t
    IN  ~(t = <<>> \/ (u # <<>> /\ AllDigits(u)))

Number(s) ==
    LET t == trim(s)
        neg == t # <<>> /\ Head(t) = "-"
        u == IF t # <<>> /\ Head(t) \in {"-", "+"} THEN Tail(t) ELSE t
    IN  IF neg THEN 0 - digitsToNat(u) ELSE digitsToNat(u)

\* String(n) of an integer.
RECURSIVE natStringOf(_)
natStringOf(n) ==
    IF n < 10 THEN <<DigitSymbol(n)>>
    ELSE Append(natStringOf(n \div 10), DigitSymbol(n % 10))

numberStringOf(n) ==
    IF n < 0 THEN <<"-">> \o natStringOf(0 - n) ELSE natStringOf(n)

\* new Date(value)
Date(s) == [t |-> "date", of |-> s]

\* An inherited property of every object: Object.prototype.constructor, ...
Inherited(name) ==
    [t |-> "function",
     name |-> IF name = <<"constructor">> THEN <<"Object">> ELSE name]

\* String(v), as String.prototype.replace applies it to what its callback
\* returns.  A date's text ("Mon Jan 01 2024 00:00:00 GMT+0000 ...", or
\* "Invalid Date") depends on the host's time zone: it is kept as one
\* opaque rendering of the date.
StringOf(v) ==
    CASE v.t = "string" -> v.s
      [] v.t = "number" -> numberStringOf(v.n)
      [] v.t = "date" -> <<"Date.toString(">> \o v.of \o <<")">>
      [] v.t = "null" -> <<"null">>
      [] v.t = "undefined" -> <<"undefined">>
      [] v.t = "function" ->
             <<"function ">> \o v.name \o <<"() { [native code] }">>
      [] OTHER -> <<"[object Object]">>

(***************************************************************************)
(* processExcelTemplate, src/app.ts lines 108-191.                         *)
(***************************************************************************)
\* The properties every object made by JSON.parse inherits.
ObjectPrototypeNames ==
    {<<"constructor">>, <<"toString">>, <<"valueOf">>, <<"hasOwnProperty">>}

\* formData[placeholder]: an own property, or one of the prototype chain.
lookup(formData, placeholder) ==
    IF placeholder \in DOMAIN formData THEN formData[placeholder]
    ELSE IF placeholder \in ObjectPrototypeNames THEN Inherited(placeholder)
    ELSE Undefined

\* placeholderRegex = /{{([^}]+)}}/g tried at position i of s: the position
\* of the match's last symbol, or 0 when there is no match at i.
matchEnd(s, i) ==
    IF i + 1 <= Len(s) /\ s[i] = "{" /\ s[i + 1] = "{"
    THEN LET closers == {k \in (i + 2)..Len(s) : s[k] = "}"}
         IN  IF closers = {} THEN 0
             ELSE LET k == CHOOSE c \in closers : \A d \in closers : c <= d
                  IN  IF k > i + 2 /\ k + 1 <= Len(s) /\ s[k + 1] = "}"
                      THEN k + 1 ELSE 0
    ELSE 0

\* cellValue.match(placeholderRegex)
hasPlaceholder(s) == \E i \in 1..Len(s) : matchEnd(s, i) # 0

\* The callback of replace, lines 145-163: what it returns for a match.
replacer(match, placeholder, formData) ==
    LET value == lookup(formData, placeholder)
    IN  IF value = Undefined THEN Str(match)
        ELSE IF value.t = "string" /\ matchesIsoDatePrefix(value.s)
        THEN Date(value.s)
        ELSE IF value.t = "string" /\ ~isNaNNumber(value.s)
                /\ trim(value.s) # <<>>
        THEN Num(Number(value.s))
        ELSE value

\* cellValue.replace(placeholderRegex, callback) from position i on: every
\* match is replaced by the string of what the callback returns.
RECURSIVE replaceFrom(_, _, _)
replaceFrom(s, i, formData) ==
    IF i > Len(s) THEN <<>>
    ELSE LET e == matchEnd(s, i)
         IN  IF e = 0 THEN <<s[i]>> \o replaceFrom(s, i + 1, formData)
             ELSE StringOf(replacer(SubSeq(s, i, e), SubSeq(s, i + 2, e - 2),
                                    formData))
                      \o replaceFrom(s, e + 1, formData)

\* What line 165 assigns to cell.value: replace returns a string.
newValue(cellValue, formData) == Str(replaceFrom(cellValue, 1, formData))

\* JSON.parse(JSON.stringify(v)): properties that are undefined or
\* functions are dropped, a date becomes its text.
RECURSIVE jsonClone(_)
jsonClone(v) ==
    IF v.t = "object"
    THEN Obj([k \in {k \in DOMAIN v.props :
                        v.props[k].t \notin {"undefined", "function"}} |->
                 jsonClone(v.props[k])])
    ELSE IF v.t = "date" THEN Str(StringOf(v))
    ELSE v

\* A cell the library makes when asked for one that is not there.
EmptyCell == [value |-> Null, style |-> Obj(<<>>)]

\* The cell one column to the left, as a 0-based column index would give.
templateCellOffByOne(templateWorkbook, sheetIndex, rowNumber, colNumber) ==
    IF <<sheetIndex, rowNumber, colNumber - 1>> \in DOMAIN templateWorkbook
    THEN templateWorkbook[<<sheetIndex, rowNumber, colNumber - 1>>]
    ELSE EmptyCell

\* templateWorkbook.worksheets[sheetIndex].getRow(rowNumber).getCell(colNumber)
templateCell(templateWorkbook, sheetIndex, rowNumber, colNumber) ==
    IF <<sheetIndex, rowNumber, colNumber>> \in DOMAIN templateWorkbook
    THEN templateWorkbook[<<sheetIndex, rowNumber, colNumber>>]
    ELSE EmptyCell

\* Lines 136-170 for one cell.
processCell(cell, tCell, formData) ==
    LET originalStyle == jsonClone(tCell.style)
        valued == IF cell.value.t = "string" /\ hasPlaceholder(cell.value.s)
                  THEN [cell EXCEPT !.value = newValue(cell.value.s, formData)]
                  ELSE cell
    IN  [valued EXCEPT !.style = originalStyle]

XlIdle ==
    [pc |-> "idle", file |-> <<>>, templateWorkbook |-> <<>>,
     workbook |-> <<>>, todo |-> {}, formData |-> <<>>, output |-> <<>>,
     placeholders |-> {}]

\* worksheets.forEach, eachRow, eachCell: sheet by sheet, row by row, cell
\* by cell.
Before(a, b) ==
    \/ a[1] < b[1]
    \/ a[1] = b[1] /\ a[2] < b[2]
    \/ a[1] = b[1] /\ a[2] = b[2] /\ a[3] <= b[3]

nextCell(todo) == CHOOSE a \in todo : \A b \in todo : Before(a, b)

\* One turn of the innermost loop.  (Column widths, row heights and the
\* worksheet and workbook properties are copied from the template likewise;
\* they are no part of a cell.)
XlProcessCell ==
    /\ xl.pc = "cells"
    /\ xl.todo # {}
    /\ LET a == nextCell(xl.todo)
           tCell == templateCell(xl.templateWorkbook, a[1], a[2], a[3])
       IN  xl' = [xl EXCEPT
                     !.workbook[a] = processCell(@, tCell, xl.formData),
                     !.todo = @ \ {a}]
    /\ UNCHANGED <<fs, dirs, now, dl, sw, env, gen, img>>

\* workbook.xlsx.writeFile(outputPath)
XlWriteFile ==
    /\ xl.pc = "cells"
    /\ xl.todo = {}
    /\ xl' = [xl EXCEPT !.pc = "done", !.output = xl.workbook]
    /\ UNCHANGED <<fs, dirs, now, dl, sw, env, gen, img>>

\* {{name}}
Token(name) == <<"{", "{">> \o name \o <<"}", "}">>

CellTexts ==
    {Token(<<"name">>), Token(<<"date">>), Token(<<"constructor">>),
     <<"Total", ":", " ">> \o Token(<<"amount">>) \o <<" ">>
         \o Token(<<"missing">>),
     <<"plain", " ", "{", "}">>}

CellValues ==
    {Str(t) : t \in CellTexts}
        \cup {Num(12), [t |-> "formula", result |-> Str(Token(<<"name">>))]}

CellStyles ==
    {Obj([numFmt |-> Str(<<"dd/mm/yyyy">>)]),
     Obj([font |-> Obj([bold |-> [t |-> "boolean", b |-> TRUE],
                        color |-> Obj([argb |-> Str(<<"FFFF0000">>)])])])}

Cells == [value : CellValues, style : CellStyles]

\* The i-th cell of the templates drawn: two columns, two sheets, then the
\* next row.
AddrOf(i) ==
    <<(((i - 1) \div 2) % 2) + 1, ((i - 1) \div 4) + 1, ((i - 1) % 2) + 1>>

IsoDate == <<"2", "0", "2", "4", "-", "0", "1", "-", "0", "1">>

FormDatas ==
    {<<>>,
     (<<"name">> :> Str(<<"Acme">>)) @@ (<<"date">> :> Str(IsoDate))
         @@ (<<"amount">> :> Str(<<"4", "2">>)),
     (<<"name">> :> Str(<<"0", "0", "7">>))
         @@ (<<"date">> :> Str(IsoDate \o <<"T", "1", "0">>))
         @@ (<<"amount">> :> Str(<<" ">>)),
     (<<"name">> :> Str(<<>>)) @@ (<<"date">> :> Null)
         @@ (<<"amount">> :> Str(<<"-", "0">>)),
     (<<"name">> :> Num(5)) @@ (<<"amount">> :> Str(<<"1", "2", "ab">>)),
     (<<"constructor">> :> Str(<<"Acme">>)) @@ (<<"date">> :> Str(<<"1", "2">>))}

(***************************************************************************)
(* findExcelPlaceholders, src/app.ts lines 52-99, and the upload that      *)
(* calls it.                                                               *)
(***************************************************************************)
\* Lines 70-79: the text the scanner reads in a cell's raw value.
cellText(rawValue) ==
    IF rawValue.t = "string" THEN rawValue.s
    ELSE IF rawValue.t = "object" /\ "result" \in DOMAIN rawValue.props
    THEN LET result == rawValue.props.result
         IN  IF result.t \in {"undefined", "null"} THEN <<>>
             ELSE StringOf(result)
    ELSE IF rawValue.t = "object" /\ "text" \in DOMAIN rawValue.props
    THEN StringOf(OrElse(rawValue.props.text, Str(<<>>)))
    ELSE <<>>

\* Lines 82-89: cellValue.match(placeholderRegex) from position i on, each
\* match without its braces.
RECURSIVE matchesFrom(_, _)
matchesFrom(s, i) ==
    IF i > Len(s) THEN {}
    ELSE LET e == matchEnd(s, i)
         IN  IF e = 0 THEN matchesFrom(s, i + 1)
             ELSE {SubSeq(s, i + 2, e - 2)} \cup matchesFrom(s, e + 1)

\* The set the scanner returns for a workbook.
findExcelPlaceholders(workbook) ==
    UNION {matchesFrom(cellText(workbook[a].value), 1) : a \in DOMAIN workbook}

\* POST /upload, lines 226-245: the form is rendered unless the set is
\* empty.
XlScan ==
    /\ xl.pc = "idle"
    /\ LET uniquePlaceholders == findExcelPlaceholders(xl.file)
       IN  xl' = [xl EXCEPT !.placeholders = uniquePlaceholders,
                            !.pc = IF uniquePlaceholders = {} THEN "rejected"
                                   ELSE "form"]
    /\ UNCHANGED <<fs, dirs, now, dl, sw, env, gen, img>>

\* What the fields of the form are filled with.
FormTexts == {<<"Acme">>, <<"4", "2">>, <<>>}

\* POST /generate with a value for every field of the form; lines 110-115
\* load the template twice.
XlLoad ==
    /\ xl.pc = "form"
    /\ \E formData \in [xl.placeholders -> {Str(s) : s \in FormTexts}] :
           xl' = [xl EXCEPT !.pc = "cells", !.formData = formData,
                            !.templateWorkbook = xl.file,
                            !.workbook = xl.file,
                            !.todo = DOMAIN xl.file]
    /\ UNCHANGED <<fs, dirs, now, dl, sw, env, gen, img>>

\* The cell values of the uploaded templates: strings, a number, formula
\* cells with their cached result, a hyperlink cell with its text.
ScanCellValues ==
    {Str(Token(<<"name">>)),
     Str(<<"Total", ":", " ">> \o Token(<<"amount">>) \o <<" ">>
             \o Token(<<"name">>)),
     Str(<<"plain", " ", "{", "}">>),
     Num(12),
     Obj([formula |-> Str(<<"A1">>), result |-> Str(Token(<<"name">>))]),
     Obj([formula |-> Str(<<"A1+1">>), result |-> Num(12)]),
     Obj([text |-> Str(<<"see", " ">> \o Token(<<"date">>)),
          hyperlink |-> Str(<<"https://example.org">>)])}

ScanCells == [value : ScanCellValues, style : {Obj(<<>>)}]

(***************************************************************************)
(* The specifications.                                                     *)
(***************************************************************************)
vars == <<fs, dirs, now, dl, sw, env, gen, img, xl>>

DownloadFiles ==
    (DIRS.generatedPdf \o <<"g1.pdf">>   :> File(0, 2, 0))
 @@ (DIRS.generatedPdf \o <<"passwd">>   :> File(0, 1, 0))
 @@ (DIRS.generatedExcel \o <<"g1.xlsx">> :> File(0, 1, 0))
 @@ (<<"etc", "passwd">>                 :> File(0, 1, 0))
 @@ (AppDir \o <<"etc", "passwd">>       :> File(0, 1, 0))

InitDownload ==
    /\ fs = DownloadFiles
    /\ dirs = StartDirs \cup {AppDir \o <<"etc">>}
    /\ now = 0
    /\ dl = DlIdle
    /\ sw = SwIdle
    /\ env = EnvQuiet
    /\ gen = GenIdle
    /\ img = ImgIdle
    /\ xl = XlIdle

NextDownload ==
    \/ DownloadRequest
    \/ DownloadStreamOpen
    \/ DownloadStreamData
    \/ DownloadStreamEnd
    \/ DownloadStreamError
    \/ DownloadNext

SpecDownload == InitDownload /\ [][NextDownload]_vars

SweepPaths ==
    {DIRS.generatedDocx \o <<"g1.docx">>, DIRS.generatedPdf \o <<"g1.pdf">>,
     DIRS.generatedPdf \o <<"g2.pdf">>, DIRS.generatedExcel \o <<"g2.xlsx">>}

InitSweep ==
    /\ now = MaxTime - 1
    /\ \E S \in SUBSET SweepPaths :
           fs \in [S -> {File(t, 1, 0) : t \in 0..now}]
    /\ dirs = StartDirs
    /\ dl = DlIdle
    /\ sw = SwIdle
    /\ gen = GenIdle
    /\ img = ImgIdle
    /\ xl = XlIdle
    /\ \E U \in {{}} \cup {{p} : p \in SweepPaths} :
           env = [EnvQuiet EXCEPT !.undeletable = U]

NextSweep ==
    \/ SweepStart
    \/ SweepReadDir
    \/ SweepFile
    \/ SweepNext
    \/ ExtRemove
    \/ Tick

SpecSweep == InitSweep /\ [][NextSweep]_vars

InitGen ==
    /\ fs = <<>>
    /\ dirs = StartDirs
    /\ now = 0
    /\ dl = DlIdle
    /\ sw = SwIdle
    /\ env = EnvQuiet
    /\ gen = GenIdle
    /\ img = ImgIdle
    /\ xl = XlIdle

NextGen ==
    \/ \E r \in Reqs :
           \/ GenReceive(r)
           \/ GenRenderFail(r)
           \/ GenWrite(r)
           \/ ConvBegin(r)
           \/ ConverterRun(r)
           \/ ConvExecDone(r)
           \/ ConvAfterWait(r)
    \/ Tick

SpecGen == InitGen /\ [][NextGen]_vars

\* One conversion followed alone.  A PDF of the expected name may be there
\* before the converter runs: SpecGen reaches such states, with two
\* requests that read the same clock value.
StalePdfs == {DIRS.generatedPdf \o <<generatedName(t, "pdf")>> : t \in 0..MaxTime}

InitConv ==
    /\ \E S \in SUBSET StalePdfs : fs \in [S -> {File(0, n, 0) : n \in {0, 1}}]
    /\ dirs = StartDirs
    /\ now = 0
    /\ dl = DlIdle
    /\ sw = SwIdle
    /\ env = EnvQuiet
    /\ gen = GenIdle
    /\ img = ImgIdle
    /\ xl = XlIdle

NextConv ==
    \/ GenReceive(1)
    \/ GenRenderFail(1)
    \/ GenWrite(1)
    \/ ConvBegin(1)
    \/ ConverterRun(1)
    \/ ConvExecDone(1)
    \/ ConvAfterWait(1)
    \/ Tick

SpecConv == InitConv /\ [][NextConv]_vars

InitImage ==
    /\ fs = <<>>
    /\ dirs = StartDirs
    /\ now = 0
    /\ dl = DlIdle
    /\ sw = SwIdle
    /\ env = EnvQuiet
    /\ gen = GenIdle
    /\ xl = XlIdle
    /\ \E K \in SUBSET {ImgKeys[i] : i \in 1..Len(ImgKeys)} :
       \E body \in [K -> FormValues] :
           img = [pc |-> "received", body |-> body, formData |-> body]

NextImage == ImgNormalize

SpecImage == InitImage /\ [][NextImage]_vars

InitExcel ==
    /\ fs = <<>>
    /\ dirs = StartDirs
    /\ now = 0
    /\ dl = DlIdle
    /\ sw = SwIdle
    /\ env = EnvQuiet
    /\ gen = GenIdle
    /\ img = ImgIdle
    /\ \E A \in SUBSET {AddrOf(i) : i \in 1..MaxCells} :
       \E file \in [A -> Cells], formData \in FormDatas :
           xl = [XlIdle EXCEPT !.pc = "cells", !.file = file,
                               !.templateWorkbook = file, !.workbook = file,
                               !.todo = A, !.formData = formData]

NextExcel ==
    \/ XlProcessCell
    \/ XlWriteFile

SpecExcel == InitExcel /\ [][NextExcel]_vars

\* The artifacts a client has download links for.
RaceFiles ==
    (DIRS.generatedPdf \o <<"g1.pdf">>     :> File(0, 2, 0))
 @@ (DIRS.generatedPdf \o <<"g2.pdf">>     :> File(0, 0, 0))
 @@ (DIRS.generatedExcel \o <<"g1.xlsx">>  :> File(0, 1, 0))

ArtifactNames == {<<Last(p)>> : p \in DOMAIN RaceFiles}

\* A client follows a download link.
DownloadArtifactRequest ==
    /\ dl.pc = "idle"
    /\ \E type \in DOMAIN OUTPUT_DIRS, filename \in ArtifactNames :
           dl' = downloadHandler(type, filename)
    /\ UNCHANGED <<fs, dirs, now, sw, env, gen, img, xl>>

\* cleanupGeneratedFiles is synchronous: no other JavaScript of the process
\* runs between its first and its last line.  The stream's open is a
\* system call of the thread pool and is not held back.
EventLoopFree == sw.pc \in {"idle", "done"}

InitRace ==
    /\ fs = RaceFiles
    /\ dirs = StartDirs
    /\ now = 0
    /\ dl = DlIdle
    /\ sw = SwIdle
    /\ env = EnvQuiet
    /\ gen = GenIdle
    /\ img = ImgIdle
    /\ xl = XlIdle

NextRace ==
    \/ EventLoopFree /\ DownloadArtifactRequest
    \/ DownloadStreamOpen
    \/ EventLoopFree /\ DownloadStreamData
    \/ EventLoopFree /\ DownloadStreamEnd
    \/ EventLoopFree /\ DownloadStreamError
    \/ EventLoopFree /\ DownloadNext
    \/ SweepStart
    \/ SweepReadDir
    \/ SweepFile
    \/ SweepNext
    \/ Tick

SpecRace == InitRace /\ [][NextRace]_vars

InitScan ==
    /\ fs = <<>>
    /\ dirs = StartDirs
    /\ now = 0
    /\ dl = DlIdle
    /\ sw = SwIdle
    /\ env = EnvQuiet
    /\ gen = GenIdle
    /\ img = ImgIdle
    /\ \E A \in SUBSET {AddrOf(i) : i \in 1..MaxCells} :
       \E file \in [A -> ScanCells] : xl = [XlIdle EXCEPT !.file = file]

NextScan ==
    \/ XlScan
    \/ XlLoad
    \/ XlProcessCell
    \/ XlWriteFile

SpecScan == InitScan /\ [][NextScan]_vars

(***************************************************************************)
(* The claims.                                                             *)
(***************************************************************************)
\* C1: for a valid type and any filename, the path tested and streamed is
\* the filename's base name joined to the type's directory, and no file
\* outside the type's directory is read.
C1_ReadsBaseNameInTypeDir ==
    (dl.type \in DOMAIN OUTPUT_DIRS /\ dl.tested) =>
        /\ dl.filePath = join(targetDirOf(dl.type), <<dl.cleanFilename>>).path
        /\ (dl.stream /\ dl.filePath \in DOMAIN fs) =>
               IsPrefix(targetDirOf(dl.type), dl.filePath)

\* A conversion whose converter ran to its end and whose result is known.
Converted(g) == g.conv.outcome # None /\ g.conv.code # NoCode

\* C2: a conversion returns successfully only if the expected output file
\* exists and is non-empty after the converter ran; with the file missing
\* or of zero bytes it fails.
C2_SuccessMeansNonEmptyOutput ==
    \A r \in Reqs :
        Converted(gen[r]) =>
            (gen[r].conv.outcome = "ok" <=>
                (gen[r].conv.existed /\ gen[r].conv.size > 0))

Visited == DOMAIN xl.workbook \ xl.todo

\* A visited cell that held exactly {{name}} with a string entry for name.
C4_SingleToken(a, name) ==
    /\ a \in Visited
    /\ xl.file[a].value = Str(Token(name))
    /\ name \in DOMAIN xl.formData
    /\ xl.formData[name].t = "string"

\* C4: a string cell holding a placeholder with a present value stores a
\* date value for a YYYY-MM-DD string, a numeric value for a string that
\* parses fully as a number and is not blank, the raw string otherwise.
C4_StoresTypedValue ==
    \A a \in Visited : \A name \in DOMAIN xl.formData :
        C4_SingleToken(a, name) =>
            LET v == xl.formData[name].s
                stored == xl.workbook[a].value
            IN  IF matchesIsoDatePrefix(v) THEN stored.t = "date"
                ELSE IF ~isNaNNumber(v) /\ trim(v) # <<>>
                THEN stored = Num(Number(v))
                ELSE stored = Str(v)

\* What C5 expects of an image entry.
C5_Supplied(value, name, default) ==
    IF name \in DOMAIN value.props THEN value.props[name] ELSE default

C5_Expected(key, value) ==
    Obj([_type |-> Str(<<"image">>),
         source |-> Buffer(Get(value, "source")),
         format |-> MimeTypePng,
         width |-> C5_Supplied(value, "width", Num(150)),
         height |-> C5_Supplied(value, "height", Num(100)),
         altText |-> C5_Supplied(value, "altText", Str(key)),
         transparencyPercent |-> C5_Supplied(value, "transparencyPercent", Num(0))])

\* C5: a normalized image keeps the caller's width, height and transparency
\* when supplied and gets 150, 100 and 0 otherwise, its alt text is the
\* caller's or else the placeholder name; other values pass unmodified.
C5_ImageKeepsCallerSize ==
    img.pc = "normalized" =>
        \A key \in DOMAIN img.body :
            img.formData[key] =
                IF isImage(img.body[key])
                THEN C5_Expected(key, img.body[key])
                ELSE img.body[key]

\* The artifacts a finished sweep found at its start and that no other
\* process removed meanwhile.
SweepOld(p) == tooOld(sw.now, sw.start[p].mtime, sw.maxAge)

\* C6: a failure on one file (it cannot be unlinked, or it is gone when the
\* sweep reaches it) does not stop the sweep: no exception leaves
\* cleanupGeneratedFiles, and a finished sweep has deleted every file older
\* than the maximum age that could be deleted.
C6_SweepSurvivesFileFailures ==
    /\ sw.pc # "thrown"
    /\ sw.pc = "done" =>
           \A p \in DOMAIN sw.start :
               (SweepOld(p) /\ p \notin env.undeletable) => p \notin DOMAIN fs

\* C7: a sweep with maximum age 0 removes every artifact that exists when
\* it runs, also one whose mtime equals the sweep's clock reading; a sweep
\* with an infinite maximum age removes none.
C7_ZeroRemovesAllInfiniteNone ==
    sw.pc = "done" =>
        /\ sw.maxAgeHours = Hours(0) =>
               \A p \in DOMAIN sw.start :
                   p \notin env.undeletable => p \notin DOMAIN fs
        /\ (sw.maxAgeHours = Infinity /\ env.removals = 0) =>
               \A p \in DOMAIN sw.start : p \in DOMAIN fs

\* C8: every visited cell of the working copy has the style of the cell at
\* the same sheet, row and column of the pristine reference copy, whether
\* or not a value was substituted into it, and the reference copy is as it
\* was loaded.
C8_StylePreserved ==
    xl.pc # "idle" =>
        /\ xl.templateWorkbook = xl.file
        /\ \A a \in Visited : xl.workbook[a].style = xl.file[a].style

\* A rendering is done in which one cell got a value substituted, another
\* cell of another style did not.
C8_Witness ==
    /\ xl.pc = "done"
    /\ \E a, b \in Visited :
           /\ xl.workbook[a].value # xl.file[a].value
           /\ xl.workbook[b].value = xl.file[b].value
           /\ xl.file[a].style # xl.file[b].style

\* The text C9 expects: a token without an entry in the form data stays as
\* it is, a token with an entry is replaced.
RECURSIVE C9_Expected(_, _)
C9_Expected(s, i) ==
    IF i > Len(s) THEN <<>>
    ELSE LET e == matchEnd(s, i)
         IN  IF e = 0 THEN <<s[i]>> \o C9_Expected(s, i + 1)
             ELSE (IF SubSeq(s, i + 2, e - 2) \in DOMAIN xl.formData
                   THEN StringOf(replacer(SubSeq(s, i, e),
                                          SubSeq(s, i + 2, e - 2), xl.formData))
                   ELSE SubSeq(s, i, e))
                      \o C9_Expected(s, e + 1)

\* C9: in a visited string cell every {{name}} whose name has no entry in
\* the form data is still there as the same text, while the tokens with an
\* entry are replaced.
C9_MissingTokenStaysLiteral ==
    \A a \in Visited :
        (xl.file[a].value.t = "string" /\ hasPlaceholder(xl.file[a].value.s)) =>
            xl.workbook[a].value = Str(C9_Expected(xl.file[a].value.s, 1))

\* C10: a success response names an intermediate document and a PDF that
\* both exist as it is sent, the PDF being the conversion of this request's
\* document; every other request ends with an error response.
C10_NoPartialSuccess ==
    \A r \in Reqs :
        /\ gen[r].pc = "responded" => gen[r].status \in {200, 500}
        /\ gen[r].status = 200 =>
               /\ gen[r].docExisted
               /\ gen[r].pdfExisted
               /\ gen[r].pdfBy = r

\* C11: a sweep can unlink an artifact that the download handler has found
\* and is streaming, after the headers (content type, content length) went
\* out and before the stream's end; from then on the request gets no error
\* response: the status stays 200 and line 105 is not reached.
C11_NoErrorResponseAfterHeaders ==
    [][(/\ dl.pc = "streaming"
        /\ dl.opened
        /\ dl.headersSent
        /\ dl.filePath \notin DOMAIN fs)
       => (/\ dl'.status = 200
           /\ dl'.body # "Error downloading file"
           /\ dl'.contentType = MIME_TYPES[dl.type]
           /\ dl'.contentLength = dl.fd.size)]_vars

\* The sweep of the timer (default age) is between two of its lines, has
\* unlinked the file of a download whose headers and first chunk are out,
\* and the stream has bytes left to send.
C11_Witness ==
    /\ sw.pc \in {"dir", "files"}
    /\ sw.maxAgeHours = Hours(DefaultMaxAgeHours)
    /\ dl.filePath \in sw.unlinked
    /\ dl.filePath \notin DOMAIN fs
    /\ dl.pc = "streaming"
    /\ dl.tested
    /\ dl.opened
    /\ dl.headersSent
    /\ dl.contentType = MIME_TYPES[dl.type]
    /\ dl.contentLength = dl.fd.size
    /\ 0 < dl.sent
    /\ dl.sent < dl.fd.size

\* C12: when a spreadsheet template has been scanned and rendered with a
\* value for every name the scanner reported, no cell of the output holds
\* a {{name}} token of a reported name, in a string, in a formula's cached
\* result or in the text of an object cell.
C12_ReportedNamesAreReplaced ==
    (xl.pc = "done" /\ xl.placeholders \subseteq DOMAIN xl.formData) =>
        \A a \in DOMAIN xl.output :
            matchesFrom(cellText(xl.output[a].value), 1)
                \cap xl.placeholders = {}


====
